---- MODULE Spec2Model ----
(***************************************************************************)
(* A model of the Kubernetes cost optimizer of src/main.go: the pricing    *)
(* table, the three analysis passes of one cycle, the background loop of   *)
(* StartMonitoring, the goroutines that handleOptimize spawns, the shared  *)
(* slice co.recommendations and the HTTP handlers that read it.            *)
(*                                                                         *)
(* Conventions.                                                            *)
(*  - Money is an integer number of 1/10000 dollar (0.0832 $/h is 832).    *)
(*    Every product of the code (rate * 24 * 30 * 0.7, cost * 0.3) is an   *)
(*    integer in that unit; float64 rounding of the last digit is not      *)
(*    modelled.                                                            *)
(*  - CPU quantities are MilliValue() integers, memory quantities are      *)
(*    Value() integers.  A key missing from a ResourceList reads as the    *)
(*    zero Quantity, hence as 0.                                           *)
(*  - A utilization float64(usage)/float64(capacity)*100 is kept as the    *)
(*    pair [num, den]; its comparisons follow IEEE-754: x/0 is +Inf for    *)
(*    x > 0 and NaN for x = 0, and every comparison with NaN is false.     *)
(*  - Ranging over a Go map visits the keys in an unspecified order, so an *)
(*    operator that returns at the first matching key yields the SET of    *)
(*    results the iteration orders can give.                               *)
(*  - Free text (Description, Impact) and wall-clock stamps (Timestamp,    *)
(*    LastUpdated, CreatedAt) are left out of the records.                 *)
(***************************************************************************)
EXTENDS Integers, Sequences, FiniteSets, TLC

\* ---------------------------------------------------------------- bounds

\* Timer firings in one run of the specifications that keep the history of
\* the cycles (ReadSpec, SummarySpec).
MaxTicks == 1

\* POST /api/optimize requests in one run: each spawns one goroutine.
MaxWorkers == 1

\* Cycles run one after the other on one snapshot.
MaxRuns == 2

\* ---------------------------------------------------------- string helpers

\* strings.Contains(s, k)
Contains(s, k) ==
  \E i \in 1..(Len(s) - Len(k) + 1) : SubSeq(s, i, i + Len(k) - 1) = k

UpperToLower ==
  ("A" :> "a") @@ ("B" :> "b") @@ ("C" :> "c") @@ ("D" :> "d") @@ ("E" :> "e") @@
  ("F" :> "f") @@ ("G" :> "g") @@ ("H" :> "h") @@ ("I" :> "i") @@ ("J" :> "j") @@
  ("K" :> "k") @@ ("L" :> "l") @@ ("M" :> "m") @@ ("N" :> "n") @@ ("O" :> "o") @@
  ("P" :> "p") @@ ("Q" :> "q") @@ ("R" :> "r") @@ ("S" :> "s") @@ ("T" :> "t") @@
  ("U" :> "u") @@ ("V" :> "v") @@ ("W" :> "w") @@ ("X" :> "x") @@ ("Y" :> "y") @@
  ("Z" :> "z")

\* strings.ToLower(s)
RECURSIVE ToLower(_)
ToLower(s) ==
  IF Len(s) = 0 THEN ""
  ELSE LET c == SubSeq(s, 1, 1)
       IN (IF c \in DOMAIN UpperToLower THEN UpperToLower[c] ELSE c)
            \o ToLower(SubSeq(s, 2, Len(s)))

\* fmt.Sprintf("%s/%s", namespace, name)
NamespacedName(namespace, name) == namespace \o "/" \o name

\* ------------------------------------------------------------- cost model

\* CostCalculator.NodeCostPerHour, in 1/10000 dollar per hour.
NodeCostPerHour ==
  ("t3.micro" :> 104) @@ ("t3.small" :> 208) @@ ("t3.medium" :> 416) @@
  ("t3.large" :> 832) @@ ("t3.xlarge" :> 1664) @@ ("t3.2xlarge" :> 3328) @@
  ("m5.large" :> 960) @@ ("m5.xlarge" :> 1920) @@ ("m5.2xlarge" :> 3840) @@
  ("m5.4xlarge" :> 7680) @@ ("c5.large" :> 850) @@ ("c5.xlarge" :> 1700) @@
  ("c5.2xlarge" :> 3400) @@ ("c5.4xlarge" :> 6800) @@ ("default" :> 1000)

\* calculateNodeCost: the hourly rates the call can return.
calculateNodeCost(nodeName, instanceType) ==
  IF instanceType = ""
  THEN LET hits == {k \in DOMAIN NodeCostPerHour : Contains(nodeName, k)}
       IN IF hits # {} THEN {NodeCostPerHour[k] : k \in hits}
                       ELSE {NodeCostPerHour["default"]}
  ELSE IF instanceType \in DOMAIN NodeCostPerHour
       THEN {NodeCostPerHour[instanceType]}
       ELSE {NodeCostPerHour["default"]}

\* extractInstanceType: the labels the call can return.
extractInstanceType(nodeName) ==
  LET hits == {k \in DOMAIN NodeCostPerHour : Contains(ToLower(nodeName), k)}
  IN IF hits # {} THEN hits ELSE {"default"}

\* ------------------------------------------------------------ utilization

\* float64(usage) / float64(capacity) * 100
Utilization(usage, capacity) == [num |-> usage, den |-> capacity]

\* util < t
UtilBelow(util, t) == util.den > 0 /\ util.num * 100 < t * util.den

\* util > t
UtilAbove(util, t) ==
  IF util.den > 0 THEN util.num * 100 > t * util.den ELSE util.num > 0

\* ------------------------------------------------------- recommendations

\* A Recommendation value.
Recommendation(type, resource, namespace, savings, priority) ==
  [Type |-> type, Resource |-> resource, Namespace |-> namespace,
   Savings |-> savings, Priority |-> priority]

\* "metrics == nil": no element of the metrics list matched.
NoMetrics == [none |-> TRUE]

\* The smallest element of a non-empty set of indices.
First(indices) == CHOOSE i \in indices : \A j \in indices : i <= j

\* The search loop of analyzeNodes and getNodeMetrics: the first sample whose
\* name is the node's.
findNodeMetrics(nodeMetrics, name) ==
  LET hits == {i \in 1..Len(nodeMetrics) : nodeMetrics[i].name = name}
  IN IF hits = {} THEN NoMetrics ELSE nodeMetrics[First(hits)]

\* The search loop of analyzePods and getPodMetrics: the first sample with the
\* pod's name and namespace.
findPodMetrics(podMetrics, name, namespace) ==
  LET hits == {i \in 1..Len(podMetrics) :
                 podMetrics[i].name = name /\ podMetrics[i].namespace = namespace}
  IN IF hits = {} THEN NoMetrics ELSE podMetrics[First(hits)]

\* Mutant: a node_scaling recommendation for each dimension above 90%.
nodeRecommendationsPerDimension(node, metrics) ==
  LET cpuUtil == Utilization(metrics.cpu, node.cpu)
      memoryUtil == Utilization(metrics.memory, node.memory)
      under == UtilBelow(cpuUtil, 20) /\ UtilBelow(memoryUtil, 30)
      scaling == <<Recommendation("node_scaling", node.name, "", -500000, "high")>>
      rates == IF under THEN calculateNodeCost(node.name, "") ELSE {0}
  IN { (IF under
        THEN <<Recommendation("node_optimization", node.name, "",
                              (rate * 24 * 30 * 7) \div 10, "medium")>>
        ELSE <<>>)
       \o (IF UtilAbove(cpuUtil, 90) THEN scaling ELSE <<>>)
       \o (IF UtilAbove(memoryUtil, 90) THEN scaling ELSE <<>>) : rate \in rates }

\* Mutant: the first rule fires on either dimension.
nodeRecommendationsEitherIdle(node, metrics) ==
  LET cpuUtil == Utilization(metrics.cpu, node.cpu)
      memoryUtil == Utilization(metrics.memory, node.memory)
      under == UtilBelow(cpuUtil, 20) \/ UtilBelow(memoryUtil, 30)
      over == UtilAbove(cpuUtil, 90) \/ UtilAbove(memoryUtil, 90)
      rates == IF under THEN calculateNodeCost(node.name, "") ELSE {0}
  IN { (IF under
        THEN <<Recommendation("node_optimization", node.name, "",
                              (rate * 24 * 30 * 7) \div 10, "medium")>>
        ELSE <<>>)
       \o
       (IF over
        THEN <<Recommendation("node_scaling", node.name, "", -500000, "high")>>
        ELSE <<>>) : rate \in rates }

\* The body of the loop of analyzeNodes for one node that has metrics: the
\* lists it can append (one per hourly rate calculateNodeCost can return).
nodeRecommendations(node, metrics) ==
  LET cpuUtil == Utilization(metrics.cpu, node.cpu)
      memoryUtil == Utilization(metrics.memory, node.memory)
      under == UtilBelow(cpuUtil, 20) /\ UtilBelow(memoryUtil, 30)
      over == UtilAbove(cpuUtil, 90) \/ UtilAbove(memoryUtil, 90)
      rates == IF under THEN calculateNodeCost(node.name, "") ELSE {0}
  IN { (IF under
        THEN <<Recommendation("node_optimization", node.name, "",
                              (rate * 24 * 30 * 7) \div 10, "medium")>>
        ELSE <<>>)
       \o
       (IF over
        THEN <<Recommendation("node_scaling", node.name, "", -500000, "high")>>
        ELSE <<>>) : rate \in rates }

\* analyzeNodes after both List calls succeeded: the lists it can return.
RECURSIVE analyzeNodeItems(_, _)
analyzeNodeItems(nodes, nodeMetrics) ==
  IF nodes = <<>> THEN {<<>>}
  ELSE LET node == Head(nodes)
           metrics == findNodeMetrics(nodeMetrics, node.name)
           here == IF metrics = NoMetrics THEN {<<>>}
                   ELSE nodeRecommendations(node, metrics)
       IN {a \o b : a \in here, b \in analyzeNodeItems(Tail(nodes), nodeMetrics)}

\* container.Resources.Requests == nil (or Limits)
NilMap == [nil |-> TRUE]

\* The body of the container loop of analyzePods for container i of a pod.
containerRecommendations(pod, metrics, i) ==
  IF i > Len(metrics.containers) THEN <<>>
  ELSE LET container == pod.containers[i]
           containerMetrics == metrics.containers[i]
           resource == NamespacedName(pod.namespace, pod.name)
       IN (IF /\ container.requests # NilMap
              /\ container.requests.cpu > 0
              /\ containerMetrics.cpu < container.requests.cpu \div 2
           THEN <<Recommendation("resource_rightsizing", resource, pod.namespace,
                                 150000, "low")>>
           ELSE <<>>)
          \o
          (IF /\ container.requests # NilMap
              /\ container.requests.memory > 0
              /\ containerMetrics.memory < container.requests.memory \div 2
           THEN <<Recommendation("resource_rightsizing", resource, pod.namespace,
                                 100000, "low")>>
           ELSE <<>>)

RECURSIVE containersFrom(_, _, _)
containersFrom(pod, metrics, i) ==
  IF i > Len(pod.containers) THEN <<>>
  ELSE containerRecommendations(pod, metrics, i) \o containersFrom(pod, metrics, i + 1)

\* Mutant: the loop of analyzePods looks at the pods of every phase.
RECURSIVE analyzePodItemsAnyPhase(_, _)
analyzePodItemsAnyPhase(pods, podMetrics) ==
  IF pods = <<>> THEN <<>>
  ELSE LET pod == Head(pods)
           metrics == findPodMetrics(podMetrics, pod.name, pod.namespace)
           here == IF metrics = NoMetrics THEN <<>>
                   ELSE containersFrom(pod, metrics, 1)
       IN here \o analyzePodItemsAnyPhase(Tail(pods), podMetrics)

\* analyzePods after both List calls succeeded.
RECURSIVE analyzePodItems(_, _)
analyzePodItems(pods, podMetrics) ==
  IF pods = <<>> THEN <<>>
  ELSE LET pod == Head(pods)
           metrics == IF pod.phase # "Running" THEN NoMetrics
                      ELSE findPodMetrics(podMetrics, pod.name, pod.namespace)
           here == IF metrics = NoMetrics THEN <<>>
                   ELSE containersFrom(pod, metrics, 1)
       IN here \o analyzePodItems(Tail(pods), podMetrics)

\* Mutant: a deployment gets the second recommendation only without the first.
deploymentRecommendationsFirstRule(deployment) ==
  LET resource == NamespacedName(deployment.namespace, deployment.name)
      hasResources == \E i \in 1..Len(deployment.containers) :
                         \/ deployment.containers[i].requests # NilMap
                         \/ deployment.containers[i].limits # NilMap
  IN IF deployment.replicas > 1
     THEN <<Recommendation("horizontal_scaling", resource, deployment.namespace,
                           250000, "medium")>>
     ELSE IF ~hasResources
          THEN <<Recommendation("resource_governance", resource, deployment.namespace,
                                200000, "medium")>>
          ELSE <<>>

\* The body of the loop of analyzeDeployments for one deployment.
deploymentRecommendations(deployment) ==
  LET resource == NamespacedName(deployment.namespace, deployment.name)
      hasResources == \E i \in 1..Len(deployment.containers) :
                         \/ deployment.containers[i].requests # NilMap
                         \/ deployment.containers[i].limits # NilMap
  IN (IF deployment.replicas > 1
      THEN <<Recommendation("horizontal_scaling", resource, deployment.namespace,
                            250000, "medium")>>
      ELSE <<>>)
     \o
     (IF ~hasResources
      THEN <<Recommendation("resource_governance", resource, deployment.namespace,
                            200000, "medium")>>
      ELSE <<>>)

\* analyzeDeployments after the List call succeeded.
RECURSIVE analyzeDeploymentItems(_)
analyzeDeploymentItems(deployments) ==
  IF deployments = <<>> THEN <<>>
  ELSE deploymentRecommendations(Head(deployments))
         \o analyzeDeploymentItems(Tail(deployments))

\* ------------------------------------------------- metrics and summary

\* getNodeMetrics after both List calls succeeded: the lists it can return
\* (one per label extractInstanceType can return).  CPUUsage and CPUCapacity
\* are in millicores and MemoryUsage and MemoryCapacity in bytes (the code
\* divides them by 1000 and by 2^30); EstimatedCost is hourlyCost * 24 * 30.
RECURSIVE getNodeMetricsItems(_, _)
getNodeMetricsItems(nodes, nodeMetricsList) ==
  IF nodes = <<>> THEN {<<>>}
  ELSE LET node == Head(nodes)
           nodeMetrics == findNodeMetrics(nodeMetricsList, node.name)
           here ==
             IF nodeMetrics = NoMetrics THEN {<<>>}
             ELSE UNION {
                    { << [Name |-> node.name,
                          CPUUsage |-> nodeMetrics.cpu,
                          MemoryUsage |-> nodeMetrics.memory,
                          CPUCapacity |-> node.cpu,
                          MemoryCapacity |-> node.memory,
                          CPUUtilization |-> Utilization(nodeMetrics.cpu, node.cpu),
                          MemoryUtilization |->
                            Utilization(nodeMetrics.memory, node.memory),
                          EstimatedCost |-> hourlyCost * 24 * 30,
                          InstanceType |-> instanceType] >> :
                      hourlyCost \in calculateNodeCost(node.name, instanceType) } :
                    instanceType \in extractInstanceType(node.name) }
       IN {a \o b : a \in here, b \in getNodeMetricsItems(Tail(nodes), nodeMetricsList)}

\* estimatePodCost: cpuRequest/1000 * 0.05 * 24 * 30 is cpuRequest * 360
\* ten-thousandths of a dollar; memRequest/2^30 * 0.01 * 24 * 30 is
\* memRequest * 72 in units of 1000/2^30 ten-thousandths of a dollar.  The
\* second term is no integer: the two terms of the sum are kept apart.
estimatePodCost(cpuRequest, memRequest) ==
  [cpu |-> cpuRequest * 360, memory |-> memRequest * 72]

\* The sum of two such costs.
AddCost(a, b) == [cpu |-> a.cpu + b.cpu, memory |-> a.memory + b.memory]

ZeroCost == [cpu |-> 0, memory |-> 0]

\* A resource of a ResourceList that may be nil.
QuantityOf(resourceList, resource) ==
  IF resourceList = NilMap THEN 0 ELSE resourceList[resource]

\* The total of one resource over the usage samples of a pod's containers.
RECURSIVE TotalUsage(_, _)
TotalUsage(containers, resource) ==
  IF containers = <<>> THEN 0
  ELSE Head(containers)[resource] + TotalUsage(Tail(containers), resource)

\* The total of one resource over the requests, or the limits, of a pod's
\* containers: a nil map or a zero quantity adds nothing.
RECURSIVE TotalOf(_, _, _)
TotalOf(containers, which, resource) ==
  IF containers = <<>> THEN 0
  ELSE QuantityOf(Head(containers)[which], resource)
         + TotalOf(Tail(containers), which, resource)

\* getPodMetrics after both List calls succeeded.  Quantities are in
\* millicores and bytes, as in getNodeMetricsItems.
RECURSIVE getPodMetricsItems(_, _)
getPodMetricsItems(pods, podMetricsList) ==
  IF pods = <<>> THEN <<>>
  ELSE LET pod == Head(pods)
           podMetrics == IF pod.phase # "Running" THEN NoMetrics
                         ELSE findPodMetrics(podMetricsList, pod.name, pod.namespace)
           totalCPURequest == TotalOf(pod.containers, "requests", "cpu")
           totalMemRequest == TotalOf(pod.containers, "requests", "memory")
           here ==
             IF podMetrics = NoMetrics THEN <<>>
             ELSE << [Name |-> pod.name,
                      Namespace |-> pod.namespace,
                      CPUUsage |-> TotalUsage(podMetrics.containers, "cpu"),
                      MemoryUsage |-> TotalUsage(podMetrics.containers, "memory"),
                      CPURequest |-> totalCPURequest,
                      MemoryRequest |-> totalMemRequest,
                      CPULimit |-> TotalOf(pod.containers, "limits", "cpu"),
                      MemoryLimit |-> TotalOf(pod.containers, "limits", "memory"),
                      EstimatedCost |->
                        estimatePodCost(totalCPURequest, totalMemRequest)] >>
       IN here \o getPodMetricsItems(Tail(pods), podMetricsList)

\* generateCostSummary: the loop "totalComputeCost += node.EstimatedCost".
RECURSIVE TotalComputeCost(_)
TotalComputeCost(nodeMetrics) ==
  IF nodeMetrics = <<>> THEN 0
  ELSE Head(nodeMetrics).EstimatedCost + TotalComputeCost(Tail(nodeMetrics))

\* generateCostSummary: the loop's "wastedResources += node.EstimatedCost * 0.3".
RECURSIVE WastedResources(_)
WastedResources(nodeMetrics) ==
  IF nodeMetrics = <<>> THEN 0
  ELSE LET node == Head(nodeMetrics)
       IN (IF UtilBelow(node.CPUUtilization, 50) \/ UtilBelow(node.MemoryUtilization, 50)
           THEN (node.EstimatedCost * 3) \div 10 ELSE 0)
          + WastedResources(Tail(nodeMetrics))

\* generateCostSummary: the loop "namespaceCosts[pod.Namespace] += pod.EstimatedCost".
RECURSIVE CostOfNamespace(_, _)
CostOfNamespace(podMetrics, namespace) ==
  IF podMetrics = <<>> THEN ZeroCost
  ELSE AddCost(IF Head(podMetrics).Namespace = namespace
               THEN Head(podMetrics).EstimatedCost ELSE ZeroCost,
               CostOfNamespace(Tail(podMetrics), namespace))

NamespaceCosts(podMetrics) ==
  [namespace \in {podMetrics[i].Namespace : i \in 1..Len(podMetrics)} |->
     CostOfNamespace(podMetrics, namespace)]

\* generateCostSummary: the loop "potentialSavings += rec.Savings" over the
\* elements the range statement sees.
RECURSIVE PotentialSavings(_)
PotentialSavings(recs) ==
  IF recs = <<>> THEN 0 ELSE Head(recs).Savings + PotentialSavings(Tail(recs))

\* The placeholder "totalStorageCost = 100.0".
StorageCost == 1000000

\* The ClusterCostSummary generateCostSummary returns: potentialSavings is the
\* sum its loop found, recommendationCount the len(co.recommendations) that the
\* return statement reads.
ClusterCostSummary(nodeMetrics, podMetrics, potentialSavings, recommendationCount) ==
  [TotalMonthlyCost |-> TotalComputeCost(nodeMetrics) + StorageCost,
   ComputeCost |-> TotalComputeCost(nodeMetrics),
   StorageCost |-> StorageCost,
   WastedResources |-> WastedResources(nodeMetrics),
   PotentialSavings |-> potentialSavings,
   NodeCount |-> Len(nodeMetrics),
   PodCount |-> Len(podMetrics),
   NamespaceCosts |-> NamespaceCosts(podMetrics),
   RecommendationCount |-> recommendationCount]

\* handleActions: the catalog it builds on every call.
ActionCatalog ==
  << [ID |-> "1", Type |-> "scale_down", Resource |-> "default/nginx-deployment",
      Namespace |-> "default", Action |-> "Scale deployment to 1 replica",
      Parameters |-> [replicas |-> 1], Status |-> "pending", ExecutedAt |-> "nil"] >>

\* ------------------------------------------------------- the cluster

\* The states the cluster can be in (what the API server and the metrics
\* server answer).  In both there is one node named after its instance type,
\* one running pod with one container, and one deployment; in the first the
\* node is idle, in the second it is busy.
ClusterStates ==
  LET nodes == << [name |-> "n-t3.large", cpu |-> 2000, memory |-> 8192] >>
      pods == << [name |-> "web", namespace |-> "default", phase |-> "Running",
                  containers |-> << [name |-> "app",
                                     requests |-> [cpu |-> 500, memory |-> 0],
                                     limits |-> NilMap] >>] >>
      podMetrics == << [name |-> "web", namespace |-> "default",
                        containers |-> << [name |-> "app", cpu |-> 150,
                                           memory |-> 64] >>] >>
      deployments == << [name |-> "web", namespace |-> "default", replicas |-> 2,
                         containers |-> << [name |-> "app",
                                            requests |-> [cpu |-> 500, memory |-> 0],
                                            limits |-> NilMap] >>] >>
  IN << [nodes |-> nodes,
         nodeMetrics |-> << [name |-> "n-t3.large", cpu |-> 150, memory |-> 500] >>,
         pods |-> pods, podMetrics |-> podMetrics, deployments |-> deployments],
        [nodes |-> nodes,
         nodeMetrics |-> << [name |-> "n-t3.large", cpu |-> 1900, memory |-> 5000] >>,
         pods |-> pods, podMetrics |-> podMetrics, deployments |-> deployments] >>

\* ------------------------------------------------------------ the state

VARIABLES
  cluster,          \* the cluster's present state: an index of ClusterStates
  recommendations,  \* co.recommendations: the words of the slice header
  tickerC,          \* ticker.C: TRUE when a tick is buffered in the channel
  cycles,           \* the goroutines that run analyzeAndGenerateRecommendations
  optimize,         \* the POST /api/optimize requests
  recsResp,         \* the last answer of GET /api/recommendations
  query,            \* the request for node metrics, pod metrics or the summary
  queryResp,        \* the last answer to such a request
  actionsResp,      \* the last answer of GET /api/actions
  executeResp,      \* the last answer of POST /api/actions/{id}/execute
  executed,         \* history: the ids ExecuteAction has answered "executed" for
  ticks,            \* history: timer firings so far
  completed,        \* history: the lists of the cycles that have returned
  lastPublished,    \* history: the list of the cycle that returned last
  fresh,            \* history: when the cycles started and finished pulling
  snapshot,         \* the inventory and metrics a rule is applied to
  results           \* what the analyses and queries of that snapshot returned

vars == <<cluster, recommendations, tickerC, cycles, optimize, recsResp, query,
          queryResp, actionsResp, executeResp, executed, ticks, completed,
          lastPublished, fresh, snapshot, results>>

history == <<completed, lastPublished>>

\* The state of the handlers of the metrics, summary and action endpoints.
api == <<query, queryResp, actionsResp, executeResp, executed>>

\* The snapshot a rule is applied to, and what was returned for it.
probe == <<snapshot, results>>

\* The goroutine of StartMonitoring, and those spawned by handleOptimize.
Monitor == 0
Workers == 1..MaxWorkers
Goroutines == {Monitor} \cup Workers

\* A goroutine at the first statement of analyzeAndGenerateRecommendations:
\* recommendations := make([]Recommendation, 0).  nodes and pods are the lists
\* analyzeNodes and analyzePods hold between their two List calls; failed is
\* history: the resource kinds whose provider failed in this cycle.
CycleStart ==
  [pc |-> "ListNodes", nodes |-> <<>>, pods |-> <<>>, recs |-> <<>>,
   storedData |-> FALSE, storedLen |-> FALSE, failed |-> {}]

\* A goroutine handleOptimize has not spawned yet.
Unborn == [CycleStart EXCEPT !.pc = "unborn"]

\* A slice header: the backing array and the length word (the capacity word is
\* read by no code of the program).
SliceOf(list) == [data |-> list, len |-> Len(list)]

\* What an element read past the end of the backing array holds.
OutOfBounds == Recommendation("out_of_bounds", "", "", 0, "")

\* The elements a reader of the slice header h sees.
View(h) == [i \in 1..h.len |-> IF i <= Len(h.data) THEN h.data[i] ELSE OutOfBounds]

NoResponse == [status |-> "none", body |-> <<>>]

\* No request for metrics or for the summary is being served.  Of a request
\* being served: nodes and pods are the lists getNodeMetrics and getPodMetrics
\* hold between their two List calls, nodeMetrics and podMetrics what they
\* returned, potentialSavings the sum of generateCostSummary's loop.
NoQuery ==
  [handler |-> "none", pc |-> "idle", nodes |-> <<>>, nodeMetrics |-> <<>>,
   pods |-> <<>>, podMetrics |-> <<>>, potentialSavings |-> 0]

\* The stamps of the cycles, on a clock that counts the cycles started: born
\* is the clock when the cycle of a goroutine started, pulled the clock when
\* its last List call returned, published the stamps of the cycle whose list
\* co.recommendations holds.  The cycle of StartMonitoring starts at 0.  The
\* stamps are kept in the runs that start with on set.
NoStamps ==
  [on |-> FALSE,
   clock |-> 0,
   born |-> [g \in Goroutines |-> 0],
   pulled |-> [g \in Goroutines |-> 0],
   published |-> [born |-> 0, pulled |-> 0]]

\* A cluster with nothing in it.
EmptySnapshot ==
  [nodes |-> <<>>, nodeMetrics |-> <<>>, pods |-> <<>>, podMetrics |-> <<>>,
   deployments |-> <<>>]

\* Nothing was asked about the snapshot yet: recs holds the list of each
\* analysis that ran, metrics and summary the answers given (none or one).
NoResults == [recs |-> <<>>, metrics |-> <<>>, summary |-> <<>>]

\* main: NewCostOptimizer, then "go optimizer.StartMonitoring()", whose loop
\* begins with a cycle.
Boot ==
  /\ cluster \in 1..Len(ClusterStates)
  /\ recommendations = SliceOf(<<>>)
  /\ tickerC = FALSE
  /\ cycles = [g \in Goroutines |-> IF g = Monitor THEN CycleStart ELSE Unborn]
  /\ optimize = [w \in Workers |-> "none"]
  /\ recsResp = NoResponse
  /\ query = NoQuery
  /\ queryResp = NoResponse
  /\ actionsResp = NoResponse
  /\ executeResp = NoResponse
  /\ executed = {}
  /\ ticks = 0
  /\ completed = {}
  /\ lastPublished = <<>>

\* The program started, over the cluster of ClusterStates.
Init ==
  /\ Boot
  /\ fresh = NoStamps
  /\ snapshot = EmptySnapshot
  /\ results = NoResults

\* ------------------------------------------------------------ the cluster

\* The cluster changes under the program.
ClusterChange ==
  /\ cluster' \in (1..Len(ClusterStates)) \ {cluster}
  /\ UNCHANGED <<recommendations, tickerC, cycles, optimize, recsResp, ticks, history, api, probe, fresh>>

\* --------------------------------------------------------------- a cycle

\* The stamps kept once the cycle of goroutine g has started.
Born(g) ==
  IF fresh.on
  THEN [fresh EXCEPT !.clock = @ + 1, !.born[g] = fresh.clock + 1]
  ELSE fresh

\* The stamps kept once the last List call of the cycle of g has returned.
Pulled(g) ==
  IF fresh.on THEN [fresh EXCEPT !.pulled[g] = fresh.clock] ELSE fresh

\* The stamps kept once co.recommendations holds the list of the cycle of g.
Published(g) ==
  IF fresh.on
  THEN [fresh EXCEPT !.published = [born |-> fresh.born[g], pulled |-> fresh.pulled[g]]]
  ELSE fresh

\* Goroutine g goes on with c as its state; nothing else changes.
Step(g, c) ==
  /\ cycles' = [cycles EXCEPT ![g] = c]
  /\ fresh' = IF c.pc = "publish" THEN Pulled(g) ELSE fresh
  /\ UNCHANGED <<cluster, recommendations, tickerC, optimize, recsResp, ticks, history, api, probe>>

\* analyzeNodes: Nodes().List fails; analyzeNodes returns no recommendation.
ListNodesFail(g) ==
  /\ cycles[g].pc = "ListNodes"
  /\ Step(g, [cycles[g] EXCEPT !.pc = "ListPods", !.failed = @ \cup {"nodes"}])

\* analyzeNodes: Nodes().List answers.
ListNodesOk(g) ==
  /\ cycles[g].pc = "ListNodes"
  /\ Step(g, [cycles[g] EXCEPT !.pc = "ListNodeMetrics",
                               !.nodes = ClusterStates[cluster].nodes])

\* analyzeNodes: NodeMetricses().List fails.
ListNodeMetricsFail(g) ==
  /\ cycles[g].pc = "ListNodeMetrics"
  /\ Step(g, [cycles[g] EXCEPT !.pc = "ListPods", !.nodes = <<>>,
                               !.failed = @ \cup {"nodes"}])

\* analyzeNodes: NodeMetricses().List answers; the loop over the nodes runs and
\* analyzeAndGenerateRecommendations appends what it returns.
ListNodeMetricsOk(g) ==
  /\ cycles[g].pc = "ListNodeMetrics"
  /\ \E found \in analyzeNodeItems(cycles[g].nodes, ClusterStates[cluster].nodeMetrics) :
       Step(g, [cycles[g] EXCEPT !.pc = "ListPods", !.nodes = <<>>,
                                 !.recs = @ \o found])

\* Mutant: a failing Pods("").List ends the analysis of the cycle.
ListPodsFailAborts(g) ==
  /\ cycles[g].pc = "ListPods"
  /\ Step(g, [cycles[g] EXCEPT !.pc = "publish", !.failed = @ \cup {"pods"}])

\* analyzePods: Pods("").List fails.
ListPodsFail(g) ==
  /\ cycles[g].pc = "ListPods"
  /\ Step(g, [cycles[g] EXCEPT !.pc = "ListDeployments", !.failed = @ \cup {"pods"}])

\* analyzePods: Pods("").List answers.
ListPodsOk(g) ==
  /\ cycles[g].pc = "ListPods"
  /\ Step(g, [cycles[g] EXCEPT !.pc = "ListPodMetrics",
                               !.pods = ClusterStates[cluster].pods])

\* analyzePods: PodMetricses("").List fails.
ListPodMetricsFail(g) ==
  /\ cycles[g].pc = "ListPodMetrics"
  /\ Step(g, [cycles[g] EXCEPT !.pc = "ListDeployments", !.pods = <<>>,
                               !.failed = @ \cup {"pods"}])

\* analyzePods: PodMetricses("").List answers; the loop over the pods runs.
ListPodMetricsOk(g) ==
  /\ cycles[g].pc = "ListPodMetrics"
  /\ Step(g, [cycles[g] EXCEPT
                !.pc = "ListDeployments", !.pods = <<>>,
                !.recs = @ \o analyzePodItems(cycles[g].pods,
                                              ClusterStates[cluster].podMetrics)])

\* analyzeDeployments: Deployments("").List fails.
ListDeploymentsFail(g) ==
  /\ cycles[g].pc = "ListDeployments"
  /\ Step(g, [cycles[g] EXCEPT !.pc = "publish", !.failed = @ \cup {"deployments"}])

\* analyzeDeployments: Deployments("").List answers; the loop runs.
ListDeploymentsOk(g) ==
  /\ cycles[g].pc = "ListDeployments"
  /\ Step(g, [cycles[g] EXCEPT
                !.pc = "publish",
                !.recs = @ \o analyzeDeploymentItems(ClusterStates[cluster].deployments)])

\* Mutant: StartMonitoring returns after a cycle instead of looping.
AfterCycleExits(g) == [CycleStart EXCEPT !.pc = "exited"]

\* A goroutine once analyzeAndGenerateRecommendations has returned (its locals
\* are gone): StartMonitoring blocks on <-ticker.C, a spawned goroutine ends.
AfterCycle(g) == [CycleStart EXCEPT !.pc = IF g = Monitor THEN "wait" ELSE "exited"]

\* "co.recommendations = recommendations" is no atomic step: without a lock it
\* is one store per word of the slice header, in an order the compiler
\* chooses.  The cycle returns after the second store.
StoreWords(g, data, len) ==
  LET c == [cycles[g] EXCEPT !.storedData = @ \/ data, !.storedLen = @ \/ len]
      done == c.storedData /\ c.storedLen
  IN /\ cycles[g].pc = "publish"
     /\ recommendations' =
          [data |-> IF data THEN cycles[g].recs ELSE recommendations.data,
           len |-> IF len THEN Len(cycles[g].recs) ELSE recommendations.len]
     /\ cycles' = [cycles EXCEPT ![g] = IF done THEN AfterCycle(g)
                                        ELSE c]
     /\ fresh' = IF done THEN Published(g) ELSE fresh
     /\ UNCHANGED <<cluster, tickerC, optimize, recsResp, ticks, api, probe>>

\* The store of the data pointer.
StoreData(g) ==
  /\ ~cycles[g].storedData
  /\ StoreWords(g, TRUE, FALSE)
  /\ UNCHANGED history

\* The store of the length.
StoreLen(g) ==
  /\ ~cycles[g].storedLen
  /\ StoreWords(g, FALSE, TRUE)
  /\ UNCHANGED history

\* Both stores with no step of another goroutine between them.
StoreSlice(g) ==
  /\ ~cycles[g].storedData
  /\ ~cycles[g].storedLen
  /\ StoreWords(g, TRUE, TRUE)

\* The history of the cycles that have returned, kept by the specifications
\* that follow what the readers see.
Record(g) ==
  IF cycles'[g].pc # "publish"
  THEN /\ completed' = completed \cup {cycles[g].recs}
       /\ lastPublished' = cycles[g].recs
  ELSE UNCHANGED history

\* The store of the data pointer, recorded.
StoreDataRecorded(g) ==
  /\ ~cycles[g].storedData
  /\ StoreWords(g, TRUE, FALSE)
  /\ Record(g)

\* The store of the length, recorded.
StoreLenRecorded(g) ==
  /\ ~cycles[g].storedLen
  /\ StoreWords(g, FALSE, TRUE)
  /\ Record(g)

\* Both stores with no step of another goroutine between them, recorded.
StoreSliceRecorded(g) ==
  /\ StoreSlice(g)
  /\ Record(g)

\* One step of the cycle that goroutine g runs.
CycleStep(g) ==
  \/ ListNodesFail(g)
  \/ ListNodesOk(g)
  \/ ListNodeMetricsFail(g)
  \/ ListNodeMetricsOk(g)
  \/ ListPodsFail(g)
  \/ ListPodsOk(g)
  \/ ListPodMetricsFail(g)
  \/ ListPodMetricsOk(g)
  \/ ListDeploymentsFail(g)
  \/ ListDeploymentsOk(g)

\* ------------------------------------------------------- StartMonitoring

\* The ticker fires: a tick is put in the channel, whose buffer holds one (a
\* tick that finds the buffer full is dropped).
TimerFires ==
  /\ tickerC' = TRUE
  /\ UNCHANGED <<cluster, recommendations, cycles, optimize, recsResp, ticks, history, api, probe, fresh>>

\* The ticker fires, in a run of at most MaxTicks firings.
Tick ==
  /\ ticks < MaxTicks
  /\ ticks' = ticks + 1
  /\ tickerC' = TRUE
  /\ UNCHANGED <<cluster, recommendations, cycles, optimize, recsResp, history, api, probe, fresh>>

\* StartMonitoring: "<-ticker.C" receives and the loop starts the next cycle.
MonitorWakes ==
  /\ cycles[Monitor].pc = "wait"
  /\ tickerC
  /\ tickerC' = FALSE
  /\ cycles' = [cycles EXCEPT ![Monitor] = CycleStart]
  /\ fresh' = Born(Monitor)
  /\ UNCHANGED <<cluster, recommendations, optimize, recsResp, ticks, history, api, probe>>

\* -------------------------------------------------------- handleOptimize

\* The worker the next "go" statement starts.
NextWorker(w) == \A v \in Workers : v < w => cycles[v].pc # "unborn"

\* handleOptimize: "go co.analyzeAndGenerateRecommendations()".
handleOptimizeGo(w) ==
  /\ optimize[w] = "none"
  /\ cycles[w].pc = "unborn"
  /\ NextWorker(w)
  /\ optimize' = [optimize EXCEPT ![w] = "triggered"]
  /\ cycles' = [cycles EXCEPT ![w] = CycleStart]
  /\ fresh' = Born(w)
  /\ UNCHANGED <<cluster, recommendations, tickerC, recsResp, ticks, history, api, probe>>

\* Mutant: handleOptimize answers once the cycle it started has returned.
handleOptimizeReturnWaits(w) ==
  /\ optimize[w] = "triggered"
  /\ cycles[w].pc = "exited"
  /\ optimize' = [optimize EXCEPT ![w] = "returned"]
  /\ UNCHANGED <<cluster, recommendations, tickerC, cycles, recsResp, ticks, history, api, probe, fresh>>

\* handleOptimize: the response "optimization_triggered" is written and the
\* handler returns.
handleOptimizeReturn(w) ==
  /\ optimize[w] = "triggered"
  /\ optimize' = [optimize EXCEPT ![w] = "returned"]
  /\ UNCHANGED <<cluster, recommendations, tickerC, cycles, recsResp, ticks, history, api, probe, fresh>>

\* -------------------------------------------------- handleRecommendations

\* handleRecommendations: encodes co.recommendations, read without a lock.
handleRecommendations ==
  /\ recsResp' = [status |-> "ok", body |-> View(recommendations)]
  /\ UNCHANGED <<cluster, recommendations, tickerC, cycles, optimize, ticks, history, api, probe, fresh>>

\* ------------------------------------- handleNodeMetrics, handlePodMetrics

\* What no step of a metrics or summary request changes.
QueryFrame ==
  UNCHANGED <<cluster, recommendations, tickerC, cycles, optimize, recsResp,
              actionsResp, executeResp, executed, ticks, history, probe, fresh>>

\* A request arrives and its handler starts.
Serve(handler, pc) ==
  /\ query = NoQuery
  /\ query' = [NoQuery EXCEPT !.handler = handler, !.pc = pc]
  /\ queryResp' = NoResponse
  /\ QueryFrame

\* handleNodeMetrics starts: it calls getNodeMetrics.
handleNodeMetrics == Serve("nodes", "ListNodes")

\* handlePodMetrics starts: it calls getPodMetrics.
handlePodMetrics == Serve("pods", "ListPods")

\* handleCostSummary starts: generateCostSummary calls getNodeMetrics.
handleCostSummary == Serve("summary", "ListNodes")

\* getNodeMetrics returns metrics: handleNodeMetrics encodes them, while
\* generateCostSummary goes on to getPodMetrics.
getNodeMetricsReturns(metrics) ==
  /\ IF query.handler = "nodes"
     THEN /\ query' = NoQuery
          /\ queryResp' = [status |-> "nodes", body |-> metrics]
     ELSE /\ query' = [query EXCEPT !.pc = "ListPods", !.nodes = <<>>,
                                    !.nodeMetrics = metrics]
          /\ UNCHANGED queryResp
  /\ QueryFrame

\* getNodeMetrics: Nodes().List fails.
getNodeMetricsListNodesFail ==
  /\ query.pc = "ListNodes"
  /\ getNodeMetricsReturns(<<>>)

\* getNodeMetrics: Nodes().List answers.
getNodeMetricsListNodesOk ==
  /\ query.pc = "ListNodes"
  /\ query' = [query EXCEPT !.pc = "ListNodeMetrics",
                            !.nodes = ClusterStates[cluster].nodes]
  /\ UNCHANGED queryResp
  /\ QueryFrame

\* getNodeMetrics: NodeMetricses().List fails.
getNodeMetricsListMetricsFail ==
  /\ query.pc = "ListNodeMetrics"
  /\ getNodeMetricsReturns(<<>>)

\* getNodeMetrics: NodeMetricses().List answers; the loop over the nodes runs.
getNodeMetricsListMetricsOk ==
  /\ query.pc = "ListNodeMetrics"
  /\ \E metrics \in getNodeMetricsItems(query.nodes, ClusterStates[cluster].nodeMetrics) :
       getNodeMetricsReturns(metrics)

\* getPodMetrics returns metrics: handlePodMetrics encodes them, while
\* generateCostSummary goes on to its loops.
getPodMetricsReturns(metrics) ==
  /\ IF query.handler = "pods"
     THEN /\ query' = NoQuery
          /\ queryResp' = [status |-> "pods", body |-> metrics]
     ELSE /\ query' = [query EXCEPT !.pc = "sum", !.pods = <<>>,
                                    !.podMetrics = metrics]
          /\ UNCHANGED queryResp
  /\ QueryFrame

\* getPodMetrics: Pods("").List fails.
getPodMetricsListPodsFail ==
  /\ query.pc = "ListPods"
  /\ getPodMetricsReturns(<<>>)

\* getPodMetrics: Pods("").List answers.
getPodMetricsListPodsOk ==
  /\ query.pc = "ListPods"
  /\ query' = [query EXCEPT !.pc = "ListPodMetrics",
                            !.pods = ClusterStates[cluster].pods]
  /\ UNCHANGED queryResp
  /\ QueryFrame

\* getPodMetrics: PodMetricses("").List fails.
getPodMetricsListMetricsFail ==
  /\ query.pc = "ListPodMetrics"
  /\ getPodMetricsReturns(<<>>)

\* getPodMetrics: PodMetricses("").List answers; the loop over the pods runs.
getPodMetricsListMetricsOk ==
  /\ query.pc = "ListPodMetrics"
  /\ getPodMetricsReturns(getPodMetricsItems(query.pods,
                                             ClusterStates[cluster].podMetrics))

\* One step of getNodeMetrics or getPodMetrics.
MetricsStep ==
  \/ getNodeMetricsListNodesFail
  \/ getNodeMetricsListNodesOk
  \/ getNodeMetricsListMetricsFail
  \/ getNodeMetricsListMetricsOk
  \/ getPodMetricsListPodsFail
  \/ getPodMetricsListPodsOk
  \/ getPodMetricsListMetricsFail
  \/ getPodMetricsListMetricsOk

\* ---------------------------------------------------- generateCostSummary

\* generateCostSummary: "for _, rec := range co.recommendations" reads the
\* slice header once and sums the savings of the elements it sees.
generateCostSummarySum ==
  /\ query.pc = "sum"
  /\ query' = [query EXCEPT !.pc = "return",
                            !.potentialSavings = PotentialSavings(View(recommendations))]
  /\ UNCHANGED queryResp
  /\ QueryFrame

\* generateCostSummary: the return statement reads len(co.recommendations);
\* handleCostSummary encodes the summary.
generateCostSummaryReturn ==
  /\ query.pc = "return"
  /\ query' = NoQuery
  /\ queryResp' = [status |-> "summary",
                   body |-> ClusterCostSummary(query.nodeMetrics, query.podMetrics,
                                               query.potentialSavings,
                                               recommendations.len)]
  /\ QueryFrame

\* ------------------------------------------ handleActions, handleExecuteAction

\* The ids a client asks to execute: the catalog's action, and another.
ActionIds == {"1", "2"}

\* handleActions: encodes the catalog.
handleActions ==
  /\ actionsResp' = [status |-> "ok", body |-> ActionCatalog]
  /\ UNCHANGED <<cluster, recommendations, tickerC, cycles, optimize, recsResp, query,
                 queryResp, executeResp, executed, ticks, history, probe, fresh>>

\* handleExecuteAction: logs the id and answers "executed".
handleExecuteAction(actionID) ==
  /\ executeResp' = [status |-> "ok",
                     body |-> [status |-> "executed", action_id |-> actionID]]
  /\ executed' = executed \cup {actionID}
  /\ UNCHANGED <<cluster, recommendations, tickerC, cycles, optimize, recsResp, query,
                 queryResp, actionsResp, ticks, history, probe, fresh>>

\* ------------------------------------------- the rules on one snapshot

\* What applying an analysis or a query to the snapshot leaves alone.
ProbeFrame ==
  UNCHANGED <<cluster, recommendations, tickerC, cycles, optimize, recsResp, ticks,
              history, api, fresh, snapshot>>

\* analyzeNodes on the snapshot, both List calls answering: one more cycle's
\* node recommendations.
analyzeNodes ==
  /\ Len(results.recs) < MaxRuns
  /\ \E list \in analyzeNodeItems(snapshot.nodes, snapshot.nodeMetrics) :
       results' = [results EXCEPT !.recs = Append(@, list)]
  /\ ProbeFrame

\* getNodeMetrics on the snapshot, both List calls answering.
getNodeMetrics ==
  /\ results.metrics = <<>>
  /\ \E list \in getNodeMetricsItems(snapshot.nodes, snapshot.nodeMetrics) :
       results' = [results EXCEPT !.metrics = <<list>>]
  /\ ProbeFrame

\* The names of the nodes: one that holds a key of the pricing table, the
\* same in capitals, one that holds two keys, one that holds none.
NodeNames == {"n-t3.large", "N-T3.LARGE", "default-t3.large", "worker-1"}

\* Capacities of a node, CPU or memory: none, or ten units.
Capacities == {0, 10}

\* CPU usages: idle, below, at and above the 20% and 90% marks of ten units,
\* and above the capacity.
CpuUsages == {0, 1, 2, 9, 10, 11}

\* Memory usages: idle, below, at and above the 30% and 90% marks.
MemoryUsages == {0, 2, 3, 9, 10}

\* A second node, busy, whose sample comes first in the metrics list.
BusyNode == [name |-> "m5.large-b", cpu |-> 10, memory |-> 10]

BusySample == [name |-> "m5.large-b", cpu |-> 10, memory |-> 10]

\* The snapshots of the nodes: one node of every name, capacity and usage,
\* with its sample or without, alone or beside the busy node.
NodeSnapshots ==
  {[EmptySnapshot EXCEPT
      !.nodes = <<[name |-> name, cpu |-> cpuCapacity, memory |-> memoryCapacity]>>
                  \o (IF beside THEN <<BusyNode>> ELSE <<>>),
      !.nodeMetrics = (IF beside THEN <<BusySample>> ELSE <<>>)
                        \o (IF sampled
                            THEN <<[name |-> name, cpu |-> cpuUsage,
                                    memory |-> memoryUsage]>>
                            ELSE <<>>)] :
     name \in NodeNames, cpuCapacity \in Capacities, memoryCapacity \in Capacities,
     cpuUsage \in CpuUsages, memoryUsage \in MemoryUsages,
     sampled \in BOOLEAN, beside \in BOOLEAN}

\* The program over a snapshot of nodes.
NodeInit ==
  /\ Boot
  /\ cluster = 1
  /\ fresh = NoStamps
  /\ snapshot \in NodeSnapshots
  /\ results = NoResults

\* analyzePods on the snapshot, both List calls answering: one more cycle's
\* pod recommendations.
analyzePods ==
  /\ Len(results.recs) < MaxRuns
  /\ results' = [results EXCEPT
                   !.recs = Append(@, analyzePodItems(snapshot.pods, snapshot.podMetrics))]
  /\ ProbeFrame

\* getPodMetrics on the snapshot, both List calls answering.
getPodMetrics ==
  /\ results.metrics = <<>>
  /\ results' = [results EXCEPT
                   !.metrics = <<getPodMetricsItems(snapshot.pods, snapshot.podMetrics)>>]
  /\ ProbeFrame

\* generateCostSummary on the snapshot, the four List calls answering.
generateCostSummary ==
  /\ results.summary = <<>>
  /\ \E nodeMetrics \in getNodeMetricsItems(snapshot.nodes, snapshot.nodeMetrics) :
       results' = [results EXCEPT
                     !.summary =
                       <<ClusterCostSummary(
                           nodeMetrics,
                           getPodMetricsItems(snapshot.pods, snapshot.podMetrics),
                           PotentialSavings(View(recommendations)),
                           recommendations.len)>>]
  /\ ProbeFrame

\* Requests of a container, in millicores or bytes: none, odd, even.
Requests == {0, 3, 4}

\* Usages of a container: around the halves of those requests.
Usages == {0, 1, 2}

\* The Requests maps of a container: nil, or with the CPU and memory requests
\* (0 for a key the map does not hold).
RequestMaps ==
  {NilMap} \cup {[cpu |-> cpu, memory |-> memory] : cpu \in Requests, memory \in Requests}

\* The pod "default/web" with the given phase and containers.
WebPod(phase, containers) ==
  [name |-> "web", namespace |-> "default", phase |-> phase, containers |-> containers]

\* The metrics entries a pod named "web" can meet: its own, none, or that of
\* a pod of the same name in another namespace.
WebSamples(containers) ==
  {<<[name |-> "web", namespace |-> "default", containers |-> containers]>>,
   <<>>,
   <<[name |-> "web", namespace |-> "staging", containers |-> containers]>>}

\* A second pod, Running, with its metrics entry, idle on its CPU request.
CompanionPod ==
  [name |-> "db", namespace |-> "data", phase |-> "Running",
   containers |-> <<[name |-> "db", requests |-> [cpu |-> 4, memory |-> 0],
                     limits |-> NilMap]>>]

CompanionSample ==
  [name |-> "db", namespace |-> "data",
   containers |-> <<[name |-> "db", cpu |-> 0, memory |-> 0]>>]

\* The snapshots of a pod with one container: every phase, request map and
\* usage, with each of the metrics entries, alone or beside the second pod.
OneContainerSnapshots ==
  {[EmptySnapshot EXCEPT
      !.pods = <<WebPod(phase, <<[name |-> "app", requests |-> requests,
                                  limits |-> NilMap]>>)>>
                 \o (IF beside THEN <<CompanionPod>> ELSE <<>>),
      !.podMetrics = (IF beside THEN <<CompanionSample>> ELSE <<>>) \o samples] :
     phase \in {"Running", "Pending"}, requests \in RequestMaps,
     samples \in UNION {WebSamples(<<[name |-> "app", cpu |-> cpu, memory |-> memory]>>) :
                          cpu \in Usages, memory \in Usages},
     beside \in BOOLEAN}

\* The usage samples of the containers "a" and "b": each idle or busy, in
\* either order, or one of them or both missing.
TwoContainerSamples ==
  UNION {{<<a, b>>, <<b, a>>, <<a>>, <<b>>, <<>>} :
           a \in {[name |-> "a", cpu |-> u, memory |-> u] : u \in {0, 4}},
           b \in {[name |-> "b", cpu |-> u, memory |-> u] : u \in {0, 4}}}

\* The snapshots of a Running pod with two containers, "a" with a CPU request
\* and "b" with a memory request.
TwoContainerSnapshots ==
  {[EmptySnapshot EXCEPT
      !.pods = <<WebPod("Running",
                        <<[name |-> "a", requests |-> [cpu |-> 4, memory |-> 0],
                           limits |-> NilMap],
                          [name |-> "b", requests |-> [cpu |-> 0, memory |-> 4],
                           limits |-> NilMap]>>)>>,
      !.podMetrics = <<[name |-> "web", namespace |-> "default",
                        containers |-> containers]>>] :
     containers \in TwoContainerSamples}

\* The program over a snapshot of pods.
PodInit ==
  /\ Boot
  /\ cluster = 1
  /\ fresh = NoStamps
  /\ snapshot \in OneContainerSnapshots \cup TwoContainerSnapshots
  /\ results = NoResults

\* analyzeDeployments on the snapshot, the List call answering: one more
\* cycle's deployment recommendations.
analyzeDeployments ==
  /\ Len(results.recs) < MaxRuns
  /\ results' = [results EXCEPT
                   !.recs = Append(@, analyzeDeploymentItems(snapshot.deployments))]
  /\ ProbeFrame

\* Status.Replicas of a deployment.
Replicas == 0..3

\* The Requests or Limits map of a container of a deployment: nil, or set.
ResourceMaps == {NilMap, [cpu |-> 4, memory |-> 0]}

\* The containers of a deployment's pod template.
TemplateContainers ==
  {[name |-> "app", requests |-> requests, limits |-> limits] :
     requests \in ResourceMaps, limits \in ResourceMaps}

\* A second deployment, scaled out, whose container has requests.
OtherDeployment ==
  [name |-> "worker", namespace |-> "jobs", replicas |-> 3,
   containers |-> <<[name |-> "app", requests |-> [cpu |-> 4, memory |-> 0],
                     limits |-> NilMap]>>]

\* The snapshots of the deployments: one deployment of every replica count
\* with no, one or two containers, alone or beside the second one.
DeploymentSnapshots ==
  {[EmptySnapshot EXCEPT
      !.deployments = <<[name |-> "api", namespace |-> "default", replicas |-> replicas,
                         containers |-> containers]>>
                        \o (IF beside THEN <<OtherDeployment>> ELSE <<>>)] :
     replicas \in Replicas,
     containers \in {<<>>} \cup {<<c>> : c \in TemplateContainers}
                           \cup {<<c, d>> : c \in TemplateContainers,
                                            d \in TemplateContainers},
     beside \in BOOLEAN}

\* The program over a snapshot of deployments.
DeploymentInit ==
  /\ Boot
  /\ cluster = 1
  /\ fresh = NoStamps
  /\ snapshot \in DeploymentSnapshots
  /\ results = NoResults

\* ------------------------------------------------------- specifications

\* The engine: the cycles of StartMonitoring and of the goroutines of
\* handleOptimize, over a cluster that changes and providers that fail.
Next ==
  \/ ClusterChange
  \/ \E g \in Goroutines : CycleStep(g)
  \/ \E g \in Goroutines : StoreData(g)
  \/ \E g \in Goroutines : StoreLen(g)
  \/ TimerFires
  \/ MonitorWakes
  \/ \E w \in Workers : handleOptimizeGo(w)
  \/ \E w \in Workers : handleOptimizeReturn(w)

Spec == Init /\ [][Next]_vars

\* The readers of co.recommendations beside the cycles of StartMonitoring, in
\* a run of at most MaxTicks timer firings, with the history of the cycles.
ReadNext ==
  \/ ClusterChange
  \/ CycleStep(Monitor)
  \/ StoreDataRecorded(Monitor)
  \/ StoreLenRecorded(Monitor)
  \/ Tick
  \/ MonitorWakes
  \/ handleRecommendations
  \/ handleNodeMetrics
  \/ handlePodMetrics
  \/ MetricsStep

ReadSpec == Init /\ [][ReadNext]_vars

\* GET /api/cost-summary beside the cycles of StartMonitoring, in the runs of
\* at most MaxTicks timer firings in which no step falls between the two
\* stores of a publication: what the summary shows here, it shows without a
\* torn slice header.
SummaryNext ==
  \/ ClusterChange
  \/ CycleStep(Monitor)
  \/ StoreSliceRecorded(Monitor)
  \/ Tick
  \/ MonitorWakes
  \/ handleCostSummary
  \/ MetricsStep
  \/ generateCostSummarySum
  \/ generateCostSummaryReturn

SummarySpec == Init /\ [][SummaryNext]_vars

\* The endpoints that do not read co.recommendations.
ApiNext ==
  \/ ClusterChange
  \/ handleNodeMetrics
  \/ handlePodMetrics
  \/ MetricsStep
  \/ handleActions
  \/ \E actionID \in ActionIds : handleExecuteAction(actionID)

ApiSpec == Init /\ [][ApiNext]_vars

\* The node rules: cycles that analyse one snapshot of nodes, and
\* GET /api/metrics/nodes on the same snapshot.
NodeNext ==
  \/ analyzeNodes
  \/ getNodeMetrics

NodeSpec == NodeInit /\ [][NodeNext]_vars

\* The pod rules: cycles that analyse one snapshot of pods, and
\* GET /api/metrics/pods and GET /api/cost-summary on the same snapshot.
PodNext ==
  \/ analyzePods
  \/ getPodMetrics
  \/ generateCostSummary

PodSpec == PodInit /\ [][PodNext]_vars

\* The deployment rules: cycles that analyse one snapshot of deployments.
DeploymentNext == analyzeDeployments

DeploymentSpec == DeploymentInit /\ [][DeploymentNext]_vars

\* The engine with the stamps of its cycles kept, in a run of at most
\* MaxTicks timer firings over a cluster that stays as it is.
FreshInit ==
  /\ Boot
  /\ fresh = [NoStamps EXCEPT !.on = TRUE]
  /\ snapshot = EmptySnapshot
  /\ results = NoResults

FreshNext ==
  \/ \E g \in Goroutines : CycleStep(g)
  \/ \E g \in Goroutines : StoreData(g)
  \/ \E g \in Goroutines : StoreLen(g)
  \/ Tick
  \/ MonitorWakes
  \/ \E w \in Workers : handleOptimizeGo(w)
  \/ \E w \in Workers : handleOptimizeReturn(w)

FreshSpec == FreshInit /\ [][FreshNext]_vars

\* The engine under the scheduling the runtime gives it: a goroutine that can
\* take a step takes one (the calls to the providers return), and the ticker
\* keeps firing.  Nothing obliges the cluster to change or a client to post.
Fairness ==
  /\ \A g \in Goroutines : WF_vars(CycleStep(g))
  /\ \A g \in Goroutines : WF_vars(StoreData(g))
  /\ \A g \in Goroutines : WF_vars(StoreLen(g))
  /\ WF_vars(TimerFires)
  /\ WF_vars(MonitorWakes)
  /\ \A w \in Workers : WF_vars(handleOptimizeReturn(w))

FairNext ==
  \/ \E g \in Goroutines : CycleStep(g)
  \/ \E g \in Goroutines : StoreData(g)
  \/ \E g \in Goroutines : StoreLen(g)
  \/ TimerFires
  \/ MonitorWakes
  \/ \E w \in Workers : handleOptimizeGo(w)
  \/ \E w \in Workers : handleOptimizeReturn(w)

FairSpec == Init /\ [][FairNext]_vars /\ Fairness

\* ================================================================ claims

\* Goroutine g is inside analyzeAndGenerateRecommendations.
Running(g) == cycles[g].pc \notin {"unborn", "wait", "exited"}

\* Goroutine g returns from analyzeAndGenerateRecommendations in this step.
Returns(g) == cycles[g].pc = "publish" /\ cycles'[g].pc # "publish"

\* C1: single-flight: at most one analysis cycle is Running at any time,
\* whatever the interleaving of timer firings and on-demand triggers.
C1_SingleFlight == Cardinality({g \in Goroutines : Running(g)}) <= 1

\* The lists analyzeNodes, analyzePods and analyzeDeployments can return from
\* the data of the cluster's states.
NodeOutcomes ==
  UNION {analyzeNodeItems(ClusterStates[a].nodes, ClusterStates[b].nodeMetrics) :
           a \in 1..Len(ClusterStates), b \in 1..Len(ClusterStates)}

PodOutcomes ==
  {analyzePodItems(ClusterStates[a].pods, ClusterStates[b].podMetrics) :
     a \in 1..Len(ClusterStates), b \in 1..Len(ClusterStates)}

DeploymentOutcomes ==
  {analyzeDeploymentItems(ClusterStates[a].deployments) : a \in 1..Len(ClusterStates)}

\* The lists of a cycle in which the providers of the kinds in failed failed:
\* nothing for those kinds, the analysis of the data for the others.
PartialLists(failed) ==
  {n \o p \o d :
     n \in (IF "nodes" \in failed THEN {<<>>} ELSE NodeOutcomes),
     p \in (IF "pods" \in failed THEN {<<>>} ELSE PodOutcomes),
     d \in (IF "deployments" \in failed THEN {<<>>} ELSE DeploymentOutcomes)}

\* The call a cycle makes after the one at pc failed.
AfterFailure(pc) ==
  CASE pc \in {"ListNodes", "ListNodeMetrics"} -> "ListPods"
    [] pc \in {"ListPods", "ListPodMetrics"} -> "ListDeployments"
    [] OTHER -> "publish"

\* C2: no torn read in the summary: the recommendation_count of every summary
\* is the length of one published list (the initial empty list, or the list of
\* a cycle that has returned) and its potential_savings is the sum of the
\* savings of that same list.
C2_NoTornSummary ==
  queryResp.status = "summary" =>
    \E list \in completed \cup {<<>>} :
      /\ queryResp.body.RecommendationCount = Len(list)
      /\ queryResp.body.PotentialSavings = PotentialSavings(list)

\* C3: atomic publication: every answer of GetRecommendations is the complete
\* list of a cycle that has returned, or the initial empty list.
C3_AtomicPublication ==
  recsResp.status = "ok" => recsResp.body \in completed \cup {<<>>}

\* The recommendation lists a cycle can compute from the snapshot c alone
\* (each provider answering with c's data, or failing).
ListsOf(c) ==
  {n \o p \o d :
     n \in analyzeNodeItems(c.nodes, c.nodeMetrics) \cup {<<>>},
     p \in {analyzePodItems(c.pods, c.podMetrics), <<>>},
     d \in {analyzeDeploymentItems(c.deployments), <<>>}}

\* The summaries whose every field is derived from the snapshot c alone.
SummariesOf(c) ==
  {ClusterCostSummary(nodeMetrics, podMetrics, PotentialSavings(list), Len(list)) :
     nodeMetrics \in getNodeMetricsItems(c.nodes, c.nodeMetrics) \cup {<<>>},
     podMetrics \in {getPodMetricsItems(c.pods, c.podMetrics), <<>>},
     list \in ListsOf(c)}

\* C4: same-snapshot consistency: every summary GetCostSummary returns has its
\* node and pod fields and its recommendation fields derived from one and the
\* same snapshot of the cluster.
C4_SameSnapshot ==
  queryResp.status = "summary" =>
    \E a \in 1..Len(ClusterStates) : queryResp.body \in SummariesOf(ClusterStates[a])

\* C5: once ExecuteAction has answered for an action of the catalog, every
\* ListActions answer reports that action with the status executed and an
\* execution time.
C5_ExecuteAction ==
  [][handleActions =>
       \A i \in 1..Len(actionsResp'.body) :
         actionsResp'.body[i].ID \in executed =>
           /\ actionsResp'.body[i].Status = "executed"
           /\ actionsResp'.body[i].ExecutedAt # "nil"]_vars

\* A step of a request for metrics or for the summary that is being served.
QueryStep == MetricsStep \/ generateCostSummarySum \/ generateCostSummaryReturn

\* C6: reads never block on a cycle: while a cycle is Running every read can
\* start, a read being served can take its next step, and the answer
\* GetRecommendations gives then is the last-published list.
C6_ReadsNeverBlock ==
  /\ []((\E g \in Goroutines : Running(g)) =>
          /\ ENABLED handleRecommendations
          /\ query = NoQuery =>
               /\ ENABLED handleNodeMetrics
               /\ ENABLED handlePodMetrics
               /\ ENABLED handleCostSummary
          /\ query # NoQuery => ENABLED QueryStep)
  /\ [][(handleRecommendations /\ \E g \in Goroutines : Running(g)) =>
          recsResp'.body = lastPublished]_vars

\* C7: the scheduler always re-arms: a cycle of StartMonitoring that returns,
\* whatever failed in it, leaves the loop waiting for the ticker; a tick in the
\* channel lets the waiting loop start a cycle; and under fairness the loop
\* starts a cycle again and again, each wait being followed by a new cycle.
C7_SchedulerRearms ==
  /\ [][Returns(Monitor) => cycles'[Monitor].pc = "wait"]_vars
  /\ []((cycles[Monitor].pc = "wait" /\ tickerC) => ENABLED MonitorWakes)
  /\ (cycles[Monitor].pc = "wait") ~> (cycles[Monitor].pc = "ListNodes")
  /\ []<>(cycles[Monitor].pc = "ListNodes")
  /\ []<>(cycles[Monitor].pc = "wait")

\* C7 witness: a cycle of StartMonitoring in which every provider failed is in
\* the middle of publishing its empty list.
C7_Witness ==
  /\ cycles[Monitor].pc = "publish"
  /\ cycles[Monitor].failed = {"nodes", "pods", "deployments"}
  /\ cycles[Monitor].storedData \/ cycles[Monitor].storedLen

\* C8 as stated: the handler of TriggerOptimize has returned by the time the
\* cycle it started completes.
C8_ReturnsBeforeCompletion ==
  \A w \in Workers : cycles[w].pc = "exited" => optimize[w] = "returned"

\* C8 amended: TriggerOptimize never waits for the cycle it starts: from the
\* "go" statement on its return is possible whatever the cycle's progress, and
\* under fairness it returns; the cycle starts with nothing pulled and no
\* recommendation, so what it publishes is computed from data pulled after the
\* trigger; and under fairness the cycle returns, having stored its list.
C8_TriggerOptimize ==
  /\ [](\A w \in Workers : optimize[w] = "triggered" => ENABLED handleOptimizeReturn(w))
  /\ \A w \in Workers : (optimize[w] = "triggered") ~> (optimize[w] = "returned")
  /\ \A w \in Workers : (optimize[w] = "triggered") ~> (cycles[w].pc = "exited")
  /\ [][\A w \in Workers :
          /\ (optimize[w] = "none" /\ optimize'[w] = "triggered") =>
               cycles'[w] = CycleStart
          /\ Returns(w) =>
               /\ cycles[w].storedData \/ recommendations'.data = cycles[w].recs
               /\ cycles[w].storedLen \/ recommendations'.len = Len(cycles[w].recs)]_vars

\* C8 witness: the handler has returned while the cycle it started is Running.
C8_Witness ==
  \E w \in Workers : optimize[w] = "returned" /\ Running(w)

\* C9: partial failure: a failing provider call leaves the cycle's list as it
\* was and the cycle goes on with the next resource kind; the list a cycle
\* publishes holds nothing for the kinds that failed and the analysis of the
\* data for the others; and the cycle returns only once it has stored that list.
C9_PartialFailure ==
  /\ [](\A g \in Goroutines :
          cycles[g].pc = "publish" => cycles[g].recs \in PartialLists(cycles[g].failed))
  /\ [][\A g \in Goroutines :
          /\ (cycles'[g].failed # {} /\ cycles'[g].failed # cycles[g].failed) =>
                /\ cycles'[g].recs = cycles[g].recs
                /\ cycles'[g].pc = AfterFailure(cycles[g].pc)
          /\ Returns(g) =>
                /\ cycles[g].storedData \/ recommendations'.data = cycles[g].recs
                /\ cycles[g].storedLen \/ recommendations'.len = Len(cycles[g].recs)]_vars

\* C9 witness: a cycle whose pod provider failed is about to publish the
\* recommendations of the nodes and of the deployments.
C9_Witness ==
  \E g \in Goroutines :
    /\ cycles[g].pc = "publish"
    /\ cycles[g].failed = {"pods"}
    /\ \E i \in 1..Len(cycles[g].recs) : cycles[g].recs[i].Type = "node_optimization"
    /\ \E i \in 1..Len(cycles[g].recs) : cycles[g].recs[i].Type = "horizontal_scaling"

\* C10: full replacement: when a cycle returns, the published list is exactly
\* that cycle's output.
C10_FullReplacement ==
  [][\A g \in Goroutines : Returns(g) => View(recommendations') = cycles[g].recs]_vars

\* C11: idempotence: the cycles that run on one and the same snapshot produce
\* one and the same recommendation list (the records hold no timestamp).
C11_Idempotence ==
  \A i, j \in 1..Len(results.recs) : results.recs[i] = results.recs[j]

\* The recommendations of a type for a resource in a list: their places.
RecsOf(list, type, resource) ==
  {i \in 1..Len(list) : list[i].Type = type /\ list[i].Resource = resource}

\* The sample of a node of the snapshot, NoMetrics when it has none.
SampleOf(node) == findNodeMetrics(snapshot.nodeMetrics, node.name)

\* usage / capacity is a utilization, and it is below t percent.
PercentBelow(usage, capacity, t) == capacity > 0 /\ usage * 100 < t * capacity

\* usage / capacity is a utilization, and it is above t percent.
PercentAbove(usage, capacity, t) == capacity > 0 /\ usage * 100 > t * capacity

\* usage / capacity is a utilization, and it is at or below t percent.
PercentAtMost(usage, capacity, t) == capacity > 0 /\ usage * 100 <= t * capacity

\* The monthly costs GetNodeMetrics reported for a node, once it was asked.
MonthlyCosts(name) ==
  {results.metrics[1][k].EstimatedCost :
     k \in {k \in 1..Len(results.metrics[1]) : results.metrics[1][k].Name = name}}

\* C12: the node_optimization rule: in every cycle's list, a node with a
\* sample whose CPU utilization is below 20% and memory utilization below 30%
\* has exactly one node_optimization recommendation, of priority medium, whose
\* savings are 0.7 times the monthly cost GetNodeMetrics reports for the node;
\* any other node has none.
C12_NodeOptimization ==
  \A r \in 1..Len(results.recs) : \A n \in 1..Len(snapshot.nodes) :
    LET list == results.recs[r]
        node == snapshot.nodes[n]
        sample == SampleOf(node)
        found == RecsOf(list, "node_optimization", node.name)
    IN IF /\ sample # NoMetrics
          /\ PercentBelow(sample.cpu, node.cpu, 20)
          /\ PercentBelow(sample.memory, node.memory, 30)
       THEN /\ Cardinality(found) = 1
            /\ \A i \in found :
                 /\ list[i].Priority = "medium"
                 /\ results.metrics # <<>> =>
                      \A cost \in MonthlyCosts(node.name) :
                        list[i].Savings * 10 = cost * 7
       ELSE found = {}

\* C13: the node_scaling rule: in every cycle's list, a node with a sample
\* whose CPU or memory utilization is above 90% has exactly one node_scaling
\* recommendation, of savings -50 and priority high; a node with a sample and
\* both utilizations at or below 90% has none.
C13_NodeScaling ==
  \A r \in 1..Len(results.recs) : \A n \in 1..Len(snapshot.nodes) :
    LET list == results.recs[r]
        node == snapshot.nodes[n]
        sample == SampleOf(node)
        found == RecsOf(list, "node_scaling", node.name)
    IN sample # NoMetrics =>
         /\ (\/ PercentAbove(sample.cpu, node.cpu, 90)
             \/ PercentAbove(sample.memory, node.memory, 90)) =>
               /\ Cardinality(found) = 1
               /\ \A i \in found : list[i].Savings = -500000 /\ list[i].Priority = "high"
         /\ (/\ PercentAtMost(sample.cpu, node.cpu, 90)
             /\ PercentAtMost(sample.memory, node.memory, 90)) =>
               found = {}

\* C13 witness: a cycle has analysed a node whose CPU and memory are both
\* above 90%, and one whose CPU and memory are both at 90%.
C13_Witness ==
  /\ results.recs # <<>>
  /\ \E n \in 1..Len(snapshot.nodes) :
       /\ SampleOf(snapshot.nodes[n]) # NoMetrics
       /\ PercentAbove(SampleOf(snapshot.nodes[n]).cpu, snapshot.nodes[n].cpu, 90)
       /\ PercentAbove(SampleOf(snapshot.nodes[n]).memory, snapshot.nodes[n].memory, 90)
  /\ \E n \in 1..Len(snapshot.nodes) :
       /\ SampleOf(snapshot.nodes[n]) # NoMetrics
       /\ SampleOf(snapshot.nodes[n]).cpu * 100 = 90 * snapshot.nodes[n].cpu
       /\ SampleOf(snapshot.nodes[n]).memory * 100 = 90 * snapshot.nodes[n].memory
       /\ snapshot.nodes[n].cpu > 0

\* C14: the zero-capacity boundary: for a node with a sample whose memory
\* capacity is zero and CPU capacity is not, the CPU alone decides the
\* node_scaling recommendation, whatever the memory usage; symmetrically for a
\* zero CPU capacity.
C14_ZeroCapacity ==
  \A r \in 1..Len(results.recs) : \A n \in 1..Len(snapshot.nodes) :
    LET list == results.recs[r]
        node == snapshot.nodes[n]
        sample == SampleOf(node)
        found == RecsOf(list, "node_scaling", node.name)
    IN sample # NoMetrics =>
         /\ (node.memory = 0 /\ node.cpu > 0) =>
               (found # {} <=> PercentAbove(sample.cpu, node.cpu, 90))
         /\ (node.cpu = 0 /\ node.memory > 0) =>
               (found # {} <=> PercentAbove(sample.memory, node.memory, 90))

\* The pods of the snapshot that are Running and have a metrics entry of
\* their name and namespace: their places.
IncludedPods ==
  {p \in 1..Len(snapshot.pods) :
     /\ snapshot.pods[p].phase = "Running"
     /\ \E m \in 1..Len(snapshot.podMetrics) :
          /\ snapshot.podMetrics[m].name = snapshot.pods[p].name
          /\ snapshot.podMetrics[m].namespace = snapshot.pods[p].namespace}

\* The resource_rightsizing recommendations of given savings for a pod.
Rightsizing(list, pod, savings) ==
  {i \in RecsOf(list, "resource_rightsizing", NamespacedName(pod.namespace, pod.name)) :
     list[i].Savings = savings /\ list[i].Priority = "low"}

\* C15: the resource_rightsizing threshold: for the container of a Running pod
\* with metrics, a CPU recommendation (savings 15.0, priority low) is emitted
\* exactly when the CPU request is positive and twice the usage is less than
\* the request, and a memory recommendation (savings 10.0, priority low)
\* exactly when the same holds of the memory request and usage.
C15_RightsizingThreshold ==
  \A r \in 1..Len(results.recs) : \A p \in IncludedPods :
    LET list == results.recs[r]
        pod == snapshot.pods[p]
        container == pod.containers[1]
        usage == findPodMetrics(snapshot.podMetrics, pod.name, pod.namespace).containers[1]
        idle(resource) ==
          /\ container.requests # NilMap
          /\ container.requests[resource] > 0
          /\ 2 * usage[resource] < container.requests[resource]
    IN Len(pod.containers) = 1 =>
         /\ Cardinality(Rightsizing(list, pod, 150000)) = (IF idle("cpu") THEN 1 ELSE 0)
         /\ Cardinality(Rightsizing(list, pod, 100000)) = (IF idle("memory") THEN 1 ELSE 0)

\* The namespaces of a set of pods of the snapshot.
NamespacesOf(places) == {snapshot.pods[p].namespace : p \in places}

\* C16: pod exclusion: every resource_rightsizing recommendation of a cycle is
\* for a pod that is Running and has a metrics entry of its name and
\* namespace; a pod that is not Running or has no such entry is in no
\* recommendation, is absent from the answer of GetPodMetrics, and counts
\* neither in the summary's pod count nor in its namespace costs.
C16_PodExclusion ==
  LET resource(p) == NamespacedName(snapshot.pods[p].namespace, snapshot.pods[p].name)
      excluded == (1..Len(snapshot.pods)) \ IncludedPods
  IN /\ \A r \in 1..Len(results.recs) : \A i \in 1..Len(results.recs[r]) :
          /\ results.recs[r][i].Type = "resource_rightsizing"
          /\ \E p \in IncludedPods : results.recs[r][i].Resource = resource(p)
          /\ \A p \in excluded : results.recs[r][i].Resource # resource(p)
     /\ results.metrics # <<>> =>
          \A k \in 1..Len(results.metrics[1]) : \A p \in excluded :
            \/ results.metrics[1][k].Name # snapshot.pods[p].name
            \/ results.metrics[1][k].Namespace # snapshot.pods[p].namespace
     /\ results.summary # <<>> =>
          /\ results.summary[1].PodCount = Cardinality(IncludedPods)
          /\ DOMAIN results.summary[1].NamespaceCosts = NamespacesOf(IncludedPods)

\* C16 witness: a pod that is not Running, whose metrics entry shows an idle
\* container, stands beside a pod that is reported; the cycle, GetPodMetrics
\* and the summary have all answered.
C16_Witness ==
  /\ results.recs # <<>> /\ results.metrics # <<>> /\ results.summary # <<>>
  /\ IncludedPods # {}
  /\ results.recs[1] # <<>>
  /\ \E p \in (1..Len(snapshot.pods)) \ IncludedPods :
       /\ snapshot.pods[p].phase = "Pending"
       /\ snapshot.pods[p].containers[1].requests = [cpu |-> 4, memory |-> 4]
       /\ \E m \in 1..Len(snapshot.podMetrics) :
            /\ snapshot.podMetrics[m].name = snapshot.pods[p].name
            /\ snapshot.podMetrics[m].namespace = snapshot.pods[p].namespace
            /\ snapshot.podMetrics[m].containers[1].cpu = 0

\* No container of the deployment has a request or a limit set.
NoResources(deployment) ==
  \A c \in 1..Len(deployment.containers) :
    /\ deployment.containers[c].requests = NilMap
    /\ deployment.containers[c].limits = NilMap

\* C17: the resource_governance rule: in every cycle's list a deployment has
\* exactly one resource_governance recommendation (savings 20.0, priority
\* medium) if none of its containers has a request or a limit set, a
\* deployment without containers included, and none otherwise; whether it has
\* a horizontal_scaling recommendation depends on its replica count alone.
C17_ResourceGovernance ==
  \A r \in 1..Len(results.recs) : \A d \in 1..Len(snapshot.deployments) :
    LET list == results.recs[r]
        deployment == snapshot.deployments[d]
        resource == NamespacedName(deployment.namespace, deployment.name)
        governance == RecsOf(list, "resource_governance", resource)
        scaling == RecsOf(list, "horizontal_scaling", resource)
    IN /\ Cardinality(governance) = (IF NoResources(deployment) THEN 1 ELSE 0)
       /\ \A i \in governance : list[i].Savings = 200000 /\ list[i].Priority = "medium"
       /\ Cardinality(scaling) = (IF deployment.replicas > 1 THEN 1 ELSE 0)

\* C17 witness: a cycle has analysed a deployment with several replicas and
\* no container, and its list holds both recommendations for it.
C17_Witness ==
  /\ results.recs # <<>>
  /\ \E d \in 1..Len(snapshot.deployments) :
       LET deployment == snapshot.deployments[d]
           resource == NamespacedName(deployment.namespace, deployment.name)
       IN /\ deployment.containers = <<>>
          /\ deployment.replicas > 1
          /\ RecsOf(results.recs[1], "resource_governance", resource) # {}
          /\ RecsOf(results.recs[1], "horizontal_scaling", resource) # {}

\* C18: freshness never regresses: when a cycle returns, the list it has
\* published was built from a snapshot pulled no earlier than the snapshot of
\* the list it replaced, however the cycles of the timer and of the triggers
\* interleave.
C18_FreshnessNeverRegresses ==
  [][\A g \in Goroutines :
       Returns(g) => fresh'.published.pulled >= fresh.published.pulled]_vars

\* The containers of a pod that have a usage sample of their own name in the
\* pod's metrics entry, and whose request of a resource is positive with that
\* sample below half of it (the half as the code computes it).
IdleByName(pod, metrics, resource) ==
  {c \in 1..Len(pod.containers) :
     /\ pod.containers[c].requests # NilMap
     /\ pod.containers[c].requests[resource] > 0
     /\ \E k \in 1..Len(metrics.containers) :
          /\ metrics.containers[k].name = pod.containers[c].name
          /\ \A j \in 1..(k - 1) : metrics.containers[j].name # pod.containers[c].name
          /\ metrics.containers[k][resource] < pod.containers[c].requests[resource] \div 2}

\* C19: container/metrics pairing: the resource_rightsizing recommendations
\* of a pod are those of its containers compared with the usage sample of
\* the container of the same name in the pod's metrics entry, whatever the
\* order of the samples; a container without a sample of its name gets none.
C19_PairingByName ==
  \A r \in 1..Len(results.recs) : \A p \in IncludedPods :
    LET list == results.recs[r]
        pod == snapshot.pods[p]
        metrics == findPodMetrics(snapshot.podMetrics, pod.name, pod.namespace)
    IN /\ Cardinality(Rightsizing(list, pod, 150000))
            = Cardinality(IdleByName(pod, metrics, "cpu"))
       /\ Cardinality(Rightsizing(list, pod, 100000))
            = Cardinality(IdleByName(pod, metrics, "memory"))

\* C20: in the list of a cycle no node has both a node_optimization and a
\* node_scaling recommendation, and no node has more than one of either,
\* whatever its capacity and usage, zero capacity and usage above capacity
\* included.
C20_OneNodeRule ==
  \A r \in 1..Len(results.recs) : \A n \in 1..Len(snapshot.nodes) :
    LET list == results.recs[r]
        optimization == RecsOf(list, "node_optimization", snapshot.nodes[n].name)
        scaling == RecsOf(list, "node_scaling", snapshot.nodes[n].name)
    IN /\ Cardinality(optimization) <= 1
       /\ Cardinality(scaling) <= 1
       /\ optimization = {} \/ scaling = {}

\* C20 witness: a cycle has analysed a node of zero CPU capacity whose memory
\* usage is above its capacity, and its list holds a recommendation for it.
C20_Witness ==
  /\ results.recs # <<>>
  /\ \E n \in 1..Len(snapshot.nodes) :
       LET sample == SampleOf(snapshot.nodes[n])
       IN /\ snapshot.nodes[n].cpu = 0
          /\ sample # NoMetrics
          /\ sample.memory > snapshot.nodes[n].memory
          /\ RecsOf(results.recs[1], "node_scaling", snapshot.nodes[n].name) # {}
====
